---- MODULE Spec2Model ----
(***************************************************************************)
(* A model of the BFV plaintext encoder (bfv/src/plaintext.rs) and of the  *)
(* BV and Hybrid key-switching keys (src/key_switching_key.rs).            *)
(*                                                                         *)
(* Polynomials are RNS residue matrices over X^N + 1.  The moduli are      *)
(* small NTT-friendly primes (q = 1 mod 2N) so that every product stays    *)
(* far below 2^31; the arithmetic itself is the code's arithmetic.         *)
(***************************************************************************)
EXTENDS Integers, Sequences, FiniteSets, TLC

\* ------------------------------------------------------------------------
\* Generic helpers
\* ------------------------------------------------------------------------

RECURSIVE SumSeq(_)
SumSeq(s) == IF s = <<>> THEN 0 ELSE Head(s) + SumSeq(Tail(s))

RECURSIVE ProdSeq(_)
ProdSeq(s) == IF s = <<>> THEN 1 ELSE Head(s) * ProdSeq(Tail(s))

RECURSIVE PowMod(_, _, _)
PowMod(b, e, q) == IF e = 0 THEN 1 % q ELSE (b * PowMod(b, e - 1, q)) % q

RECURSIVE Bits(_)
\* BigUint::bits: the number of significant bits
Bits(x) == IF x = 0 THEN 0 ELSE 1 + Bits(x \div 2)

RECURSIVE Log2(_)
Log2(n) == IF n <= 1 THEN 0 ELSE 1 + Log2(n \div 2)

RECURSIVE BitRev(_, _)
\* the `bits` low bits of x in reverse order
BitRev(x, bits) ==
    IF bits = 0 THEN 0
    ELSE (x % 2) * PowMod(2, bits - 1, 1000000) + BitRev(x \div 2, bits - 1)

Abs(x) == IF x < 0 THEN -x ELSE x

CeilDiv(a, b) == (a + b - 1) \div b

IsPrime(p) == p >= 2 /\ \A d \in 2..(p - 1) : d * d > p \/ p % d # 0

SeqToSet(s) == {s[i] : i \in 1..Len(s)}

Contains(s, v) == \E i \in 1..Len(s) : s[i] = v

\* s[from..to) with 0-based bounds, as a Rust slice s[from..to]
Slice(s, from, to) == [i \in 1..(to - from) |-> s[from + i]]

\* slice::chunks(n): consecutive chunks of n elements, the last one shorter
Chunks(s, n) ==
    [c \in 1..CeilDiv(Len(s), n) |->
        Slice(s, (c - 1) * n, IF c * n < Len(s) THEN c * n ELSE Len(s))]

Min(a, b) == IF a < b THEN a ELSE b

\* ------------------------------------------------------------------------
\* Modulus: one word-sized prime modulus
\* ------------------------------------------------------------------------

\* every prime modulus the model uses (ciphertext, auxiliary and plaintext)
AllModuli == {5, 13, 17, 29, 37, 41, 53, 61, 73, 89, 97}

ModAdd(q, a, b) == (a + b) % q
ModSub(q, a, b) == (a + q - b) % q
ModMul(q, a, b) == (a * b) % q
ModNeg(q, a) == (q - (a % q)) % q

InvTable == [q \in AllModuli |-> [a \in 1..(q - 1) |->
                CHOOSE b \in 1..(q - 1) : (a * b) % q = 1]]

\* Modulus::inv, of a unit
ModInv(q, a) == InvTable[q][a % q]

\* Modulus::center: [0, q) -> (-q/2, q/2]
Center(q, x) == IF 2 * x > q THEN x - q ELSE x

\* Modulus::reduce_vec_i64 on one value: signed input, output in [0, q)
ReduceI64(q, x) == ((x % q) + q) % q

\* ------------------------------------------------------------------------
\* NttOperator: negacyclic transform of degree N over one modulus
\* ------------------------------------------------------------------------

Degrees == {2, 4}

\* a primitive 2N-th root of unity modulo q (q = 1 mod 2N)
PsiTable == [q \in AllModuli |-> [n \in Degrees |->
                IF q % (2 * n) = 1
                THEN CHOOSE g \in 2..(q - 1) : PowMod(g, n, q) = q - 1
                ELSE 0]]

\* forward[q][n][k][j] = psi^((2*bitrev(k)+1) * j)
FwdTable == [q \in AllModuli |-> [n \in Degrees |->
               [k \in 1..n |-> [j \in 1..n |->
                   PowMod(PsiTable[q][n],
                          (2 * BitRev(k - 1, Log2(n)) + 1) * (j - 1), q)]]]]

\* backward[q][n][j][k] = N^-1 * psi^(-(2*bitrev(k)+1) * j)
BwdTable == [q \in AllModuli |-> [n \in Degrees |->
               [j \in 1..n |-> [k \in 1..n |->
                   IF PsiTable[q][n] = 0 THEN 0
                   ELSE (InvTable[q][n % q] *
                         InvTable[q][FwdTable[q][n][k][j]]) % q]]]]

\* NttOperator::forward: Coefficient -> Evaluation
NttForward(q, v) ==
    LET n == Len(v) IN
    [k \in 1..n |-> SumSeq([j \in 1..n |-> v[j] * FwdTable[q][n][k][j]]) % q]

\* NttOperator::backward: Evaluation -> Coefficient
NttBackward(q, v) ==
    LET n == Len(v) IN
    [j \in 1..n |-> SumSeq([k \in 1..n |-> v[k] * BwdTable[q][n][j][k]]) % q]

\* ------------------------------------------------------------------------
\* Poly: residue matrix (row = modulus, column = coefficient) with its
\* context (the moduli chain) and representation tag
\* ------------------------------------------------------------------------

Coefficient == "Coefficient"
Evaluation == "Evaluation"
Representations == {Coefficient, Evaluation}

\* Poly::new
PolyNew(coeffs, moduli, rep) == [ctx |-> moduli, rep |-> rep, coeffs |-> coeffs]

\* Poly::zero
PolyZero(moduli, n, rep) ==
    PolyNew([i \in 1..Len(moduli) |-> [j \in 1..n |-> 0]], moduli, rep)

PolyDegree(p) == Len(p.coeffs[1])

\* Poly::change_representation
ChangeRepresentation(p, rep) ==
    IF p.rep = rep THEN p
    ELSE [p EXCEPT
            !.rep = rep,
            !.coeffs = [i \in 1..Len(p.ctx) |->
                          IF rep = Evaluation
                          THEN NttForward(p.ctx[i], p.coeffs[i])
                          ELSE NttBackward(p.ctx[i], p.coeffs[i])]]

\* Poly::try_convert_from_u64: the values reduced under every modulus
TryConvertFromU64(vals, moduli, rep) ==
    PolyNew([i \in 1..Len(moduli) |-> [j \in 1..Len(vals) |-> vals[j] % moduli[i]]],
            moduli, rep)

\* Poly::try_convert_from_i64
TryConvertFromI64(vals, moduli, rep) ==
    PolyNew([i \in 1..Len(moduli) |->
               [j \in 1..Len(vals) |-> ReduceI64(moduli[i], vals[j])]],
            moduli, rep)

\* the per-row vectorized operators +, -, * (same context and representation)
PolyAdd(a, b) ==
    [a EXCEPT !.coeffs = [i \in 1..Len(a.ctx) |-> [j \in 1..Len(a.coeffs[i]) |->
        ModAdd(a.ctx[i], a.coeffs[i][j], b.coeffs[i][j])]]]

PolySub(a, b) ==
    [a EXCEPT !.coeffs = [i \in 1..Len(a.ctx) |-> [j \in 1..Len(a.coeffs[i]) |->
        ModSub(a.ctx[i], a.coeffs[i][j], b.coeffs[i][j])]]]

PolyMul(a, b) ==
    [a EXCEPT !.coeffs = [i \in 1..Len(a.ctx) |-> [j \in 1..Len(a.coeffs[i]) |->
        ModMul(a.ctx[i], a.coeffs[i][j], b.coeffs[i][j])]]]

\* ------------------------------------------------------------------------
\* BfvParameters
\* ------------------------------------------------------------------------

\* Option<T>: None is the empty sequence, Some(x) the one-element sequence
None == <<>>
Some(x) == <<x>>
IsSome(o) == o # <<>>
Unwrap(o) == o[1]

\* degree N, plaintext modulus t (t = 1 mod 2N), the ciphertext chain and the
\* extension chain of the P and PQ poly kinds
Params == [degree |-> 4,
           plaintext_modulus |-> 17,
           moduli |-> <<41, 73>>,
           p_moduli |-> <<89>>]

Levels(params) == 0..(Len(params.moduli) - 1)

PolyTypes == {"Q", "P", "PQ"}

\* BfvParameters::poly_ctx: at level l the Q chain is q_0 .. q_{L-1-l}
poly_ctx(params, poly_type, level) ==
    LET q == SubSeq(params.moduli, 1, Len(params.moduli) - level) IN
    CASE poly_type = "Q" -> q
      [] poly_type = "P" -> params.p_moduli
      [] OTHER -> q \o params.p_moduli

\* BfvParameters::ql_modt[level] = Q_l mod t
ql_modt(params, level) ==
    LET q == poly_ctx(params, "Q", level) IN
    ProdSeq([i \in 1..Len(q) |-> q[i] % params.plaintext_modulus])
        % params.plaintext_modulus

\* BfvParameters::matrix_reps_index_map: the slot -> coefficient permutation
\* (powers of the generator 3 modulo 2N, halved, bit-reversed); 0-based values
matrix_reps_index_map(params) ==
    LET n == params.degree
        row == n \div 2
        m == 2 * n
        pos(i) == PowMod(3, i, m)
    IN [s \in 1..n |->
          IF s <= row
          THEN BitRev((pos(s - 1) - 1) \div 2, Log2(n))
          ELSE BitRev((m - pos(s - 1 - row) - 1) \div 2, Log2(n))]

\* ------------------------------------------------------------------------
\* Plaintext
\* ------------------------------------------------------------------------

Simd == "Simd"
PolyEnc == "Poly"
EncodingTypes == {Simd, PolyEnc}

CacheMul(poly_type) == [tag |-> "Mul", poly_type |-> poly_type, rep |-> Coefficient]
CacheAddSub(rep) == [tag |-> "AddSub", poly_type |-> "Q", rep |-> rep]
CacheAll(poly_type, rep) == [tag |-> "All", poly_type |-> poly_type, rep |-> rep]
CacheNone == [tag |-> "None", poly_type |-> "Q", rep |-> Coefficient]

Encoding(encoding_type, poly_cache, level) ==
    [encoding_type |-> encoding_type, poly_cache |-> poly_cache, level |-> level]

\* BigInt `%`: the remainder takes the sign of the dividend
TruncRem(a, q) == IF a >= 0 THEN a % q ELSE -((-a) % q)

\* Plaintext::scale_m mutated: the centring of [Q*m]_t is left out
scale_m_nocenter(m, params, encoding, representation) ==
    LET t == params.plaintext_modulus
        ms == [j \in 1..Len(m) |-> (m[j] * ql_modt(params, encoding.level)) % t]
        ctx == poly_ctx(params, "Q", encoding.level)
        m_final == [i \in 1..Len(ctx) |-> [j \in 1..Len(ms) |->
                       (ms[j] * ModInv(ctx[i], ModNeg(ctx[i], t))) % ctx[i]]]
    IN ChangeRepresentation(PolyNew(m_final, ctx, Coefficient), representation)

\* Plaintext::scale_m
scale_m(m, params, encoding, representation) ==
    LET t == params.plaintext_modulus
        \* modt.scalar_mul_mod_fast_vec(&mut m, params.ql_modt[level])
        ms == [j \in 1..Len(m) |-> (m[j] * ql_modt(params, encoding.level)) % t]
        ctx == poly_ctx(params, "Q", encoding.level)
        delta(qi) == ModInv(qi, ModNeg(qi, t))
        reduced(qi, x) == TruncRem(Center(t, x) * delta(qi), qi)
        m_final == [i \in 1..Len(ctx) |-> [j \in 1..Len(ms) |->
                       IF reduced(ctx[i], ms[j]) < 0
                       THEN reduced(ctx[i], ms[j]) + ctx[i]
                       ELSE reduced(ctx[i], ms[j])]]
        m_poly == PolyNew(m_final, ctx, Coefficient)
        m_eval == ChangeRepresentation(m_poly, Evaluation)
    IN IF representation # Evaluation
       THEN ChangeRepresentation(m_eval, representation)
       ELSE m_eval

\* the buffer m1 mutated: the positions no message value is written to hold 1
encode_buffer_ones(m, params, encoding) ==
    LET n == params.degree
        t == params.plaintext_modulus
        map == matrix_reps_index_map(params)
        at(i) == IF encoding.encoding_type = Simd THEN map[i] + 1 ELSE i
        placed == [j \in 1..n |->
                     IF \E i \in 1..Len(m) : at(i) = j
                     THEN m[CHOOSE i \in 1..Len(m) : at(i) = j]
                     ELSE 1]
        reduced == [j \in 1..n |-> placed[j] % t]
    IN IF encoding.encoding_type = Simd THEN NttBackward(t, reduced) ELSE reduced

\* Plaintext::encode, lines 71-85: the buffer m1
encode_buffer(m, params, encoding) ==
    LET n == params.degree
        t == params.plaintext_modulus
        map == matrix_reps_index_map(params)
        \* the position message value i is written to
        at(i) == IF encoding.encoding_type = Simd THEN map[i] + 1 ELSE i
        placed == [j \in 1..n |->
                     IF \E i \in 1..Len(m) : at(i) = j
                     THEN m[CHOOSE i \in 1..Len(m) : at(i) = j]
                     ELSE 0]
        reduced == [j \in 1..n |-> placed[j] % t]
    IN IF encoding.encoding_type = Simd THEN NttBackward(t, reduced) ELSE reduced

\* the mul_poly of the Mul and All caches
encode_mul_poly(m1, params, poly_type, level) ==
    ChangeRepresentation(
        TryConvertFromU64(m1, poly_ctx(params, poly_type, level), Coefficient),
        Evaluation)

\* encode mutated: the All cache fills mul_poly only
encode_all_mul_only(m, params, encoding) ==
    LET m1 == encode_buffer(m, params, encoding)
        cache == encoding.poly_cache
        mul == IF cache.tag \in {"Mul", "All"}
               THEN Some(encode_mul_poly(m1, params, cache.poly_type, encoding.level))
               ELSE None
        add_sub == IF cache.tag = "AddSub"
                   THEN Some(scale_m(m1, params, encoding, cache.rep))
                   ELSE None
    IN [m |-> m1, encoding |-> Some(encoding), mul_poly |-> mul, add_sub_poly |-> add_sub]

\* Plaintext::encode past its length assertion
encode(m, params, encoding) ==
    LET m1 == encode_buffer(m, params, encoding)
        cache == encoding.poly_cache
        mul == IF cache.tag \in {"Mul", "All"}
               THEN Some(encode_mul_poly(m1, params, cache.poly_type, encoding.level))
               ELSE None
        add_sub == IF cache.tag \in {"AddSub", "All"}
                   THEN Some(scale_m(m1, params, encoding, cache.rep))
                   ELSE None
    IN [m |-> m1, encoding |-> Some(encoding), mul_poly |-> mul, add_sub_poly |-> add_sub]

\* Plaintext::decode past its assertion, lines 131-145
decode_values(pt, encoding, params) ==
    LET t == params.plaintext_modulus
        map == matrix_reps_index_map(params)
        m1 == IF encoding.encoding_type = Simd THEN NttForward(t, pt.m) ELSE pt.m
    IN [i \in 1..params.degree |->
          IF encoding.encoding_type = Simd THEN m1[map[i] + 1] ELSE m1[i]]

\* Plaintext::decode, line 129: assert!(self.encoding.is_none())
decode_asserts(pt) == ~IsSome(pt.encoding)

\* Plaintext::mul_poly_type; None stands for the panic
mul_poly_type(pt) ==
    IF Unwrap(pt.encoding).poly_cache.tag = "Mul"
    THEN Some(Unwrap(pt.encoding).poly_cache.poly_type)
    ELSE None

\* Plaintext::supports_mul_poly
supports_mul_poly(pt) == IsSome(pt.mul_poly)

\* ------------------------------------------------------------------------
\* PolyContext constants and big integers
\* ------------------------------------------------------------------------

\* A BigUint too large for the model's integers is kept as the sequence of
\* its factors; its residue is the product of the factors' residues.
BigMod(big, q) == ProdSeq([i \in 1..Len(big) |-> big[i] % q]) % q

\* PolyContext::modulus: Q = prod q_i
CtxModulus(moduli) == ProdSeq(moduli)

\* the inverse of a modulo m (m > 1 not necessarily prime, gcd(a, m) = 1)
ModInverse(a, m) == CHOOSE b \in 1..m : ((a % m) * b) % m = 1 % m

\* Q / q_i
QHat(moduli, i) == CtxModulus(moduli) \div moduli[i]

\* PolyContext::g, the generators g_i = (Q/q_i) * [(Q/q_i)^-1]_{q_i}
CtxG(moduli) ==
    [i \in 1..Len(moduli) |->
        <<QHat(moduli, i), ModInv(moduli[i], QHat(moduli, i) % moduli[i])>>]

\* Poly::try_convert_from_biguint of a constant vector
TryConvertFromBigConst(big, n, moduli, rep) ==
    PolyNew([i \in 1..Len(moduli) |-> [j \in 1..n |-> BigMod(big, moduli[i])]],
            moduli, rep)

\* Vec<BigUint>::from(&poly): the CRT lift of every column to [0, Q)
ToBigUint(p) ==
    LET q == CtxModulus(p.ctx)
        gi(i) == (QHat(p.ctx, i) * ModInv(p.ctx[i], QHat(p.ctx, i) % p.ctx[i])) % q
    IN [j \in 1..PolyDegree(p) |->
          SumSeq([i \in 1..Len(p.ctx) |-> (p.coeffs[i][j] * gi(i)) % q]) % q]

\* ------------------------------------------------------------------------
\* Randomness
\* ------------------------------------------------------------------------

\* the bound of the error distribution (random_gaussian's argument)
GaussBound == 10

\* ChaCha8Rng::from_seed(seed): word k of the stream, a fixed function of the
\* seed
ChaChaWord(seed, k) == ((seed + 3) * (k + 5) * (k + 7) + 11 * k + seed) % 997

\* Poly::random(ctx, Evaluation, rng) as the `index`-th polynomial drawn from
\* the ChaCha stream of `seed`
PolyRandom(moduli, n, seed, index) ==
    PolyNew([i \in 1..Len(moduli) |-> [j \in 1..n |->
                ChaChaWord(seed, ((index * Len(moduli)) + (i - 1)) * n + (j - 1))
                    % moduli[i]]],
            moduli, Evaluation)

\* The caller's RNG is the stream it is about to produce: the 32 seed bytes
\* fill_bytes yields first, then the error vectors.  g = 0 is the stream of
\* errors all equal to the bound.
RngSeed(rng) == rng.seed

GaussVector(rng, index, n) ==
    [j \in 1..n |->
        IF rng.g = 0 THEN GaussBound
        ELSE ((rng.g * (index + 2) * 7 + j * (rng.g + 4) + index) % (2 * GaussBound + 1))
                 - GaussBound]

\* Poly::random_gaussian(ctx, Coefficient, 10, rng), the `index`-th draw
PolyRandomGaussian(moduli, n, rng, index) ==
    TryConvertFromI64(GaussVector(rng, index, n), moduli, Coefficient)

\* ------------------------------------------------------------------------
\* BVKeySwitchingKey
\* ------------------------------------------------------------------------

\* BVKeySwitchingKey::generate_c1
BV_generate_c1(count, ksk_ctx, n, seed) ==
    [k \in 1..count |-> PolyRandom(ksk_ctx, n, seed, k - 1)]

\* generate_c0 mutated: c1*s is added instead of subtracted
BV_generate_c0_plus(ciphertext_ctx, ksk_ctx, poly, c1s, sk, rng) ==
    LET n == PolyDegree(poly)
        skp == ChangeRepresentation(TryConvertFromI64(sk, ksk_ctx, Coefficient), Evaluation)
        g == CtxG(ciphertext_ctx)
    IN [k \in 1..Min(Len(g), Len(c1s)) |->
          PolyAdd(PolyAdd(ChangeRepresentation(PolyRandomGaussian(ksk_ctx, n, rng, k - 1),
                                               Evaluation),
                          PolyMul(TryConvertFromBigConst(g[k], n, ksk_ctx, Evaluation), poly)),
                  PolyMul(c1s[k], skp))]

\* generate_c0 mutated: the generators of the ksk context are used instead of
\* those of the ciphertext context
BV_generate_c0_kskg(ciphertext_ctx, ksk_ctx, poly, c1s, sk, rng) ==
    LET n == PolyDegree(poly)
        skp == ChangeRepresentation(TryConvertFromI64(sk, ksk_ctx, Coefficient), Evaluation)
        g == CtxG(ksk_ctx)
    IN [k \in 1..Min(Len(g), Len(c1s)) |->
          PolySub(PolyAdd(ChangeRepresentation(PolyRandomGaussian(ksk_ctx, n, rng, k - 1),
                                               Evaluation),
                          PolyMul(TryConvertFromBigConst(g[k], n, ksk_ctx, Evaluation), poly)),
                  PolyMul(c1s[k], skp))]

\* BVKeySwitchingKey::generate_c0
BV_generate_c0(ciphertext_ctx, ksk_ctx, poly, c1s, sk, rng) ==
    LET n == PolyDegree(poly)
        skp == ChangeRepresentation(TryConvertFromI64(sk, ksk_ctx, Coefficient), Evaluation)
        g == CtxG(ciphertext_ctx)
        \* g *= poly
        gm(k) == PolyMul(TryConvertFromBigConst(g[k], n, ksk_ctx, Evaluation), poly)
        e(k) == ChangeRepresentation(PolyRandomGaussian(ksk_ctx, n, rng, k - 1), Evaluation)
    IN \* izip!(g, c1s): e += g; e -= c1 * sk
       [k \in 1..Min(Len(g), Len(c1s)) |->
          PolySub(PolyAdd(e(k), gm(k)), PolyMul(c1s[k], skp))]

\* new mutated: the c1s are drawn before the seed is filled in, from the
\* default (all-zero) seed
BV_new_default_seed(poly, sk, ciphertext_ctx, rng) ==
    LET ksk_ctx == poly.ctx
        c1s == [k \in 1..Len(ciphertext_ctx) |-> PolyRandom(ksk_ctx, PolyDegree(poly), 0, k - 1)]
        skp == ChangeRepresentation(TryConvertFromI64(sk, ksk_ctx, Coefficient), Evaluation)
        g == CtxG(ciphertext_ctx)
    IN [kind |-> "BV",
        c0s |-> [k \in 1..Len(g) |->
                   PolySub(PolyAdd(ChangeRepresentation(
                                       PolyRandomGaussian(ksk_ctx, PolyDegree(poly), rng, k - 1),
                                       Evaluation),
                                   PolyMul(TryConvertFromBigConst(g[k], PolyDegree(poly),
                                                                  ksk_ctx, Evaluation), poly)),
                           PolyMul(c1s[k], skp))],
        c1s |-> c1s, seed |-> RngSeed(rng),
        ciphertext_ctx |-> ciphertext_ctx, ksk_ctx |-> ksk_ctx]

\* BVKeySwitchingKey::new past its debug assertion
BV_new(poly, sk, ciphertext_ctx, rng) ==
    LET ksk_ctx == poly.ctx
        seed == RngSeed(rng)
        c1s == BV_generate_c1(Len(ciphertext_ctx), ksk_ctx, PolyDegree(poly), seed)
        c0s == BV_generate_c0(ciphertext_ctx, ksk_ctx, poly, c1s, sk, rng)
    IN [kind |-> "BV", c0s |-> c0s, c1s |-> c1s, seed |-> seed,
        ciphertext_ctx |-> ciphertext_ctx, ksk_ctx |-> ksk_ctx]

\* the residue row `row` of the input, lifted into the ksk context and
\* converted to Evaluation
BV_lift(key, row) ==
    ChangeRepresentation(TryConvertFromU64(row, key.ksk_ctx, Coefficient), Evaluation)

RECURSIVE PolySum(_)
\* the += accumulation of a non-empty sequence of polynomials
PolySum(ps) == IF Len(ps) = 1 THEN ps[1] ELSE PolyAdd(PolySum(SubSeq(ps, 1, Len(ps) - 1)), ps[Len(ps)])

\* switch mutated: the loop does not skip the first row, which is added twice
BV_switch_first_twice(key, poly) ==
    LET cnt == Min(Min(Len(key.c0s), Len(key.c1s)), Len(poly.coeffs))
        p(i) == BV_lift(key, poly.coeffs[i])
    IN <<PolyAdd(PolyMul(p(1), key.c0s[1]),
                 PolySum([i \in 1..cnt |-> PolyMul(p(i), key.c0s[i])])),
         PolyAdd(PolyMul(key.c1s[1], p(1)),
                 PolySum([i \in 1..cnt |-> PolyMul(key.c1s[i], p(i))]))>>

\* BVKeySwitchingKey::switch past its debug assertions: <<c0_out, c1_out>>
BV_switch(key, poly) ==
    LET \* izip!(c0s, c1s, rows): as many terms as the shortest of the three
        cnt == Min(Min(Len(key.c0s), Len(key.c1s)), Len(poly.coeffs))
        p(i) == BV_lift(key, poly.coeffs[i])
    IN <<PolySum([i \in 1..cnt |-> PolyMul(p(i), key.c0s[i])]),
         PolySum([i \in 1..cnt |-> PolyMul(key.c1s[i], p(i))])>>

\* ------------------------------------------------------------------------
\* HybridKeySwitchingKey: construction
\* ------------------------------------------------------------------------

\* let dnum = 3
dnum == 3

\* let aux_bits = 60, scaled to the model's 6-bit primes
aux_bits == 6

\* nb_theory::generate_prime(num_bits, modulo, upper_bound): the largest prime
\* below upper_bound of num_bits bits that is 1 modulo `modulo`, if any
generate_prime(num_bits, modulo, upper_bound) ==
    LET ok == {c \in 2..(upper_bound - 1) :
                 Bits(c) = num_bits /\ c % modulo = 1 /\ IsPrime(c)}
    IN IF ok = {} THEN None ELSE Some(CHOOSE c \in ok : \A d \in ok : d <= c)

\* the digit products Q_j of the chain, one per chunk of dnum moduli
DigitProducts(moduli) ==
    LET ch == Chunks(moduli, dnum) IN [j \in 1..Len(ch) |-> ProdSeq(ch[j])]

MaxBits(big) == CHOOSE b \in {Bits(big[j]) : j \in 1..Len(big)} :
                    \A j \in 1..Len(big) : Bits(big[j]) <= b

\* let size_p = (maxbits as f64 / aux_bits as f64).ceil() as usize
SizeP(ciphertext_ctx) == CeilDiv(MaxBits(DigitProducts(ciphertext_ctx)), aux_bits)

RECURSIVE GenerateP_short(_, _, _, _, _)
\* the loops mutated: when generate_prime is exhausted the primes found so far
\* are returned
GenerateP_short(size_p, p_moduli, upper_bound, ksk_moduli, n) ==
    IF Len(p_moduli) = size_p THEN Some(p_moduli)
    ELSE LET prime == generate_prime(aux_bits, 2 * n, upper_bound) IN
         IF ~IsSome(prime) THEN Some(p_moduli)
         ELSE IF Contains(p_moduli, Unwrap(prime)) \/ Contains(ksk_moduli, Unwrap(prime))
              THEN GenerateP_short(size_p, p_moduli, Unwrap(prime), ksk_moduli, n)
              ELSE GenerateP_short(size_p, Append(p_moduli, Unwrap(prime)), upper_bound,
                                   ksk_moduli, n)

RECURSIVE GenerateP(_, _, _, _, _)
\* the loops of lines 197-214; None when generate_prime is exhausted (panic)
GenerateP(size_p, p_moduli, upper_bound, ksk_moduli, n) ==
    IF Len(p_moduli) = size_p THEN Some(p_moduli)
    ELSE LET prime == generate_prime(aux_bits, 2 * n, upper_bound) IN
         IF ~IsSome(prime) THEN None
         ELSE IF Contains(p_moduli, Unwrap(prime)) \/ Contains(ksk_moduli, Unwrap(prime))
              THEN GenerateP(size_p, p_moduli, Unwrap(prime), ksk_moduli, n)
              ELSE GenerateP(size_p, Append(p_moduli, Unwrap(prime)), upper_bound,
                             ksk_moduli, n)

\* the special moduli P of a key over the given contexts
Hybrid_p_moduli(ciphertext_ctx, ksk_ctx, n) ==
    GenerateP(SizeP(ciphertext_ctx), <<>>, PowMod(2, aux_bits, 1000000), ksk_ctx, n)

\* let alpha = (ciphertext_ctx.moduli.len() + (dnum >> 1)) / dnum
Hybrid_alpha(ciphertext_ctx) == (Len(ciphertext_ctx) + (dnum \div 2)) \div dnum

\* g mutated: the factor [(Q/Qj)^-1]_Qj is left out
Hybrid_g_noinv(ciphertext_ctx, p_moduli) ==
    LET q == CtxModulus(ciphertext_ctx)
        qj == DigitProducts(ciphertext_ctx)
    IN [j \in 1..Len(qj) |-> <<ProdSeq(p_moduli), q \div qj[j], 1>>]

\* g = P * Qj_hat * Qj_hat_inv_modQj for every chunk, as factors
Hybrid_g(ciphertext_ctx, p_moduli) ==
    LET q == CtxModulus(ciphertext_ctx)
        qj == DigitProducts(ciphertext_ctx)
    IN [j \in 1..Len(qj) |->
          <<ProdSeq(p_moduli), q \div qj[j], ModInverse(q \div qj[j], qj[j])>>]

\* q_hat_inv_modq_parts: [(Qj/qji)^-1]_qji for every modulus of every chunk
Hybrid_q_hat_inv_modq_parts(ciphertext_ctx) ==
    LET ch == Chunks(ciphertext_ctx, dnum) IN
    [j \in 1..Len(ch) |-> [i \in 1..Len(ch[j]) |->
        ModInv(ch[j][i], (ProdSeq(ch[j]) \div ch[j][i]) % ch[j][i])]]

\* p_moduli_parts: p_whole = Q[..dnum*j] ++ Q[dnum*(j+1)..] ++ P for chunk j
Hybrid_p_moduli_parts(ciphertext_ctx, p_moduli) ==
    LET ch == Chunks(ciphertext_ctx, dnum)
        len == Len(ciphertext_ctx)
    IN [j \in 1..Len(ch) |->
          Slice(ciphertext_ctx, 0, dnum * (j - 1))
          \o (IF dnum * j < len THEN Slice(ciphertext_ctx, dnum * j, len) ELSE <<>>)
          \o p_moduli]

\* q_hat_modp_parts: (Qj/qji) mod pk for every modulus of the chunk and every
\* modulus pk of its p_whole
Hybrid_q_hat_modp_parts(ciphertext_ctx, p_moduli) ==
    LET ch == Chunks(ciphertext_ctx, dnum)
        pw == Hybrid_p_moduli_parts(ciphertext_ctx, p_moduli)
    IN [j \in 1..Len(ch) |-> [i \in 1..Len(ch[j]) |-> [k \in 1..Len(pw[j]) |->
          (ProdSeq(ch[j]) \div ch[j][i]) % pw[j][k]]]]

\* HybridKeySwitchingKey::generate_c1
Hybrid_generate_c1(count, qp_ctx, n, seed) ==
    [k \in 1..count |-> PolyRandom(qp_ctx, n, seed, k - 1)]

\* the secret key reduced under q and transformed: reduce_vec_i64, forward
SkRow(q, sk) == NttForward(q, [j \in 1..Len(sk) |-> ReduceI64(q, sk[j])])

\* generate_c0 mutated: on the P rows c1*s is added instead of subtracted
Hybrid_generate_c0_psign(c1s, g, poly, sk, rng) ==
    LET qp_ctx == c1s[1].ctx
        n == PolyDegree(poly)
        e(k) == ChangeRepresentation(PolyRandomGaussian(qp_ctx, n, rng, k - 1), Evaluation)
        to_skip == Len(poly.ctx)
    IN [k \in 1..Min(Len(c1s), Len(g)) |->
          PolyNew([i \in 1..Len(qp_ctx) |-> [j \in 1..n |->
                IF i <= to_skip
                THEN ModSub(qp_ctx[i],
                            ModAdd(qp_ctx[i],
                                   ModMul(qp_ctx[i], poly.coeffs[i][j], BigMod(g[k], qp_ctx[i])),
                                   e(k).coeffs[i][j]),
                            ModMul(qp_ctx[i], SkRow(qp_ctx[i], sk)[j], c1s[k].coeffs[i][j]))
                ELSE ModAdd(qp_ctx[i], e(k).coeffs[i][j],
                            ModMul(qp_ctx[i], SkRow(qp_ctx[i], sk)[j], c1s[k].coeffs[i][j]))]],
             qp_ctx, Evaluation)]

\* HybridKeySwitchingKey::generate_c0
Hybrid_generate_c0(c1s, g, poly, sk, rng) ==
    LET qp_ctx == c1s[1].ctx
        n == PolyDegree(poly)
        e(k) == ChangeRepresentation(PolyRandomGaussian(qp_ctx, n, rng, k - 1), Evaluation)
        to_skip == Len(poly.ctx)
        \* Q parts: [c0]_qi = [g * poly]_qi + [e]_qi - [c1s * sk]_qi
        qrow(k, i) ==
            LET modq == poly.ctx[i] IN
            [j \in 1..n |->
                ModSub(modq,
                       ModAdd(modq,
                              ModMul(modq, poly.coeffs[i][j], BigMod(g[k], modq)),
                              e(k).coeffs[i][j]),
                       ModMul(modq, SkRow(modq, sk)[j], c1s[k].coeffs[i][j]))]
        \* P parts: [c0]_pi = [e]_pi - [c1s * sk]_pi
        prow(k, i) ==
            LET modpi == qp_ctx[i] IN
            [j \in 1..n |->
                ModSub(modpi, e(k).coeffs[i][j],
                       ModMul(modpi, SkRow(modpi, sk)[j], c1s[k].coeffs[i][j]))]
    IN [k \in 1..Min(Len(c1s), Len(g)) |->
          PolyNew([i \in 1..Len(qp_ctx) |->
                      IF i <= to_skip THEN qrow(k, i) ELSE prow(k, i)],
                  qp_ctx, Evaluation)]

\* HybridKeySwitchingKey::new past its debug assertion; None when the prime
\* search panics
Hybrid_new(poly, sk, ciphertext_ctx, rng) ==
    LET n == PolyDegree(poly)
        ksk_ctx == poly.ctx
        pm == Hybrid_p_moduli(ciphertext_ctx, ksk_ctx, n)
    IN IF ~IsSome(pm) THEN None
       ELSE
       LET p_moduli == Unwrap(pm)
           p == ProdSeq(p_moduli)
           g == Hybrid_g(ciphertext_ctx, p_moduli)
           parts == Len(g)
           qp_moduli == ksk_ctx \o p_moduli
           seed == RngSeed(rng)
           c1s == Hybrid_generate_c1(parts, qp_moduli, n, seed)
           c0s == Hybrid_generate_c0(c1s, g, poly, sk, rng)
       IN Some([kind |-> "Hybrid",
                ciphertext_ctx |-> ciphertext_ctx,
                ksk_ctx |-> ksk_ctx,
                p_ctx |-> p_moduli,
                qp_ctx |-> qp_moduli,
                seed |-> seed,
                q_hat_inv_modq_parts |-> Hybrid_q_hat_inv_modq_parts(ciphertext_ctx),
                q_mod_ops_parts |-> Chunks(ciphertext_ctx, dnum),
                q_hat_modp_parts |-> Hybrid_q_hat_modp_parts(ciphertext_ctx, p_moduli),
                p_moduli_parts |-> Hybrid_p_moduli_parts(ciphertext_ctx, p_moduli),
                p_hat_inv_modp |-> [i \in 1..Len(p_moduli) |->
                    ModInv(p_moduli[i], (p \div p_moduli[i]) % p_moduli[i])],
                p_hat_modq |-> [i \in 1..Len(p_moduli) |-> [k \in 1..Len(ksk_ctx) |->
                    (p \div p_moduli[i]) % ksk_ctx[k]]],
                p_inv_modq |-> [k \in 1..Len(ksk_ctx) |-> ModInv(ksk_ctx[k], p % ksk_ctx[k])],
                dnum |-> dnum,
                alpha |-> Hybrid_alpha(ciphertext_ctx),
                c0s |-> c0s,
                c1s |-> c1s])

\* ------------------------------------------------------------------------
\* The basis-change kernels of Poly
\* ------------------------------------------------------------------------

\* Poly::approx_switch_crt_basis: for every column j and target modulus p_k,
\* sum_i ((x_ij * [qhat_i^-1]_qi) mod q_i) * (qhat_i mod p_k), reduced mod p_k
\* (no correction term)
approx_switch_crt_basis(q_coefficients, q_moduli, degree, q_hat_inv_modq, q_hat_modp, p_moduli) ==
    LET rows == Min(Min(Len(q_coefficients), Len(q_moduli)), Len(q_hat_inv_modq)) IN
    [k \in 1..Len(p_moduli) |-> [j \in 1..degree |->
        SumSeq([i \in 1..rows |->
                  ((q_coefficients[i][j] * q_hat_inv_modq[i]) % q_moduli[i])
                      * q_hat_modp[i][k]]) % p_moduli[k]]]

\* Poly::approx_mod_down: the P rows are switched into Q, subtracted from the
\* Q rows, and the difference is multiplied by P^-1 row by row
approx_mod_down(qp_coefficients, qp_ctx, p_ctx, p_hat_inv_modp, p_hat_modq, p_inv_modq) ==
    LET lq == Len(qp_ctx) - Len(p_ctx)
        q_moduli == SubSeq(qp_ctx, 1, lq)
        degree == Len(qp_coefficients[1])
        p_rows == SubSeq(qp_coefficients, lq + 1, Len(qp_ctx))
        switched == approx_switch_crt_basis(p_rows, p_ctx, degree, p_hat_inv_modp,
                                            p_hat_modq, q_moduli)
    IN [i \in 1..lq |-> [j \in 1..degree |->
          ModMul(q_moduli[i],
                 ModSub(q_moduli[i], qp_coefficients[i][j], switched[i][j]),
                 p_inv_modq[i])]]

\* Poly::approx_mod_down, were it to transform internally: the rows are taken
\* out of Evaluation form, reduced, and the Q rows are put back
approx_mod_down_ntt(qp_coefficients, qp_ctx, p_ctx, p_hat_inv_modp, p_hat_modq, p_inv_modq) ==
    LET back == [i \in 1..Len(qp_ctx) |-> NttBackward(qp_ctx[i], qp_coefficients[i])]
        down == approx_mod_down(back, qp_ctx, p_ctx, p_hat_inv_modp, p_hat_modq,
                                p_inv_modq)
    IN [i \in 1..Len(down) |-> NttForward(qp_ctx[i], down[i])]

\* ------------------------------------------------------------------------
\* HybridKeySwitchingKey::switch
\* ------------------------------------------------------------------------

\* the first and one-past-last row (0-based) of digit i of the input, lines
\* 382-392: the last digit takes every remaining row
DigitRows(key, poly, i) ==
    <<i * key.dnum,
      IF i + 1 = key.alpha THEN Len(poly.coeffs) ELSE (i + 1) * key.dnum>>

\* whether slicing the rows of some digit is out of range, or there is no
\* digit at all for poly_parts_qp[0]: the panics of switch
Hybrid_switch_panics(key, poly) ==
    \/ key.alpha = 0
    \/ \E i \in 0..(key.alpha - 1) :
          \/ DigitRows(key, poly, i)[1] > Len(poly.coeffs)
          \/ DigitRows(key, poly, i)[2] > Len(poly.coeffs)
          \/ i + 1 > Len(key.q_mod_ops_parts)

\* lines 380-543: digit i of the input embedded into QP, in Coefficient form
Hybrid_embed(key, poly, i) ==
    LET n == PolyDegree(poly)
        dr == DigitRows(key, poly, i)
        qj_coefficients == Slice(poly.coeffs, dr[1], dr[2])
        parts_count == Len(qj_coefficients)
        p_whole_coefficients ==
            approx_switch_crt_basis(qj_coefficients, key.q_mod_ops_parts[i + 1], n,
                                    key.q_hat_inv_modq_parts[i + 1],
                                    key.q_hat_modp_parts[i + 1],
                                    key.p_moduli_parts[i + 1])
        pw == Len(p_whole_coefficients)
        start == i * key.dnum
        \* r is the 0-based row of qp_poly
        row(r) ==
            IF r < start
            THEN (IF r < pw THEN p_whole_coefficients[r + 1] ELSE [j \in 1..n |-> 0])
            ELSE IF r < start + parts_count
            THEN qj_coefficients[r - start + 1]
            ELSE IF r - parts_count < pw
            THEN p_whole_coefficients[r - parts_count + 1]
            ELSE [j \in 1..n |-> 0]
    IN PolyNew([r \in 1..Len(key.qp_ctx) |-> row(r - 1)], key.qp_ctx, Coefficient)

\* lines 589-597: the accumulators c0_out and c1_out, in QP Evaluation form
Hybrid_accumulate(key, poly) ==
    LET cnt == Min(key.alpha, Min(Len(key.c0s), Len(key.c1s)))
        part(i) == ChangeRepresentation(Hybrid_embed(key, poly, i - 1), Evaluation)
    IN <<PolySum([i \in 1..cnt |-> PolyMul(part(i), key.c0s[i])]),
         PolySum([i \in 1..cnt |-> PolyMul(part(i), key.c1s[i])])>>

\* the two kernels approx_mod_down may be: one that works on the residues as
\* they are given, one that transforms them back and forth internally
Raw == "raw"
Transforming == "transforming"
Kernels == {Raw, Transforming}

\* lines 600-618: the accumulator's residues are handed to approx_mod_down as
\* they are, and the result is tagged Evaluation
Hybrid_mod_down(key, acc, kernel) ==
    PolyNew(IF kernel = Raw
            THEN approx_mod_down(acc.coeffs, key.qp_ctx, key.p_ctx, key.p_hat_inv_modp,
                                 key.p_hat_modq, key.p_inv_modq)
            ELSE approx_mod_down_ntt(acc.coeffs, key.qp_ctx, key.p_ctx, key.p_hat_inv_modp,
                                     key.p_hat_modq, key.p_inv_modq),
            key.ksk_ctx, Evaluation)

\* HybridKeySwitchingKey::switch past its debug assertions: <<c0_res, c1_res>>
Hybrid_switch(key, poly, kernel) ==
    LET acc == Hybrid_accumulate(key, poly) IN
    <<Hybrid_mod_down(key, acc[1], kernel), Hybrid_mod_down(key, acc[2], kernel)>>

\* ------------------------------------------------------------------------
\* The decryption residue measured by the tests
\* ------------------------------------------------------------------------

\* tests::key_switching_works, lines 745-755: res = cs[0] + cs[1]*sk - poly*x
\* in Coefficient form
SwitchResidue(cs, poly, sk, x) ==
    LET sk_poly == ChangeRepresentation(
                       TryConvertFromI64(sk, poly.ctx, Coefficient), Evaluation)
        res == PolyAdd(cs[1], PolyMul(cs[2], sk_poly))
        expected == PolyMul(ChangeRepresentation(x, Evaluation), poly)
    IN ChangeRepresentation(PolySub(res, expected), Coefficient)

\* lines 757-760: the magnitude min(v, Q - v) of every coefficient of the
\* residue, lifted to [0, Q)
SwitchNoise(cs, poly, sk, x) ==
    LET big == ToBigUint(SwitchResidue(cs, poly, sk, x))
        q == CtxModulus(poly.ctx)
    IN [j \in 1..Len(big) |-> Min(big[j], q - big[j])]

\* ------------------------------------------------------------------------
\* State
\* ------------------------------------------------------------------------

VARIABLES
    pc,      \* the last operation and its outcome
    msg,     \* encode's message, or scale_m's buffer
    enc,     \* the encoding descriptor given to encode / scale_m
    pt,      \* Option<Plaintext>: what encode returned
    denc,    \* the encoding descriptor given to decode
    dec,     \* Option<Vec>: what decode returned
    scaled,  \* Option<Poly>: what scale_m returned
    mtype,   \* Option<PolyType>: what mul_poly_type returned
    build,   \* whether the build has debug assertions on
    kin,     \* the arguments of new: ciphertext_ctx, poly, sk and the rng
    key,     \* Option<key>: the key-switching key new returned
    xin,     \* Option<Poly>: the argument of switch
    out,     \* Option<<<c0, c1>>>: what switch returned
    kernel   \* which approx_mod_down the Hybrid switch ran

ptvars == <<msg, enc, pt, denc, dec, scaled, mtype>>
ksvars == <<build, kin, key, xin, out, kernel>>
vars == <<pc, msg, enc, pt, denc, dec, scaled, mtype, build, kin, key, xin, out, kernel>>

\* ------------------------------------------------------------------------
\* The plaintext encoder as a state machine
\* ------------------------------------------------------------------------

\* message values: 0..MaxMsgVal and one value above t
MaxMsgVal == 1
MsgVals == (0..MaxMsgVal) \cup {Params.plaintext_modulus + 1}

\* messages of every length up to N + 1
Messages == UNION {[1..n -> MsgVals] : n \in 0..(Params.degree + 1)}

Caches ==
    {CacheNone}
    \cup {CacheMul(k) : k \in PolyTypes}
    \cup {CacheAddSub(r) : r \in Representations}
    \cup {CacheAll(k, r) : k \in {"Q", "PQ"}, r \in Representations}

Encodings ==
    {Encoding(k, c, l) : k \in EncodingTypes, c \in Caches, l \in Levels(Params)}

\* reduced buffers given to scale_m: the first two coefficients take every
\* value of [0, t)
ScaleBuffers ==
    {[j \in 1..Params.degree |-> CASE j = 1 -> v [] j = 2 -> w [] j = 3 -> 0 [] OTHER -> u]
     : v \in 0..(Params.plaintext_modulus - 1),
       w \in 0..(Params.plaintext_modulus - 1),
       u \in {0, Params.plaintext_modulus - 1}}

PtInit ==
    /\ pc = "init"
    /\ msg = <<>>
    /\ enc = Encoding(Simd, CacheNone, 0)
    /\ pt = None
    /\ denc = Encoding(Simd, CacheNone, 0)
    /\ dec = None
    /\ scaled = None
    /\ mtype = None
    /\ build = FALSE
    /\ kin = None
    /\ key = None
    /\ xin = None
    /\ out = None
    /\ kernel = Raw

\* Plaintext::encode(m, params, encoding)
Encode ==
    /\ pc = "init"
    /\ \E m \in Messages, e \in Encodings :
        /\ msg' = m
        /\ enc' = e
        /\ IF Len(m) <= Params.degree
           THEN pt' = Some(encode(m, Params, e)) /\ pc' = "encoded"
           ELSE pt' = None /\ pc' = "encode_panic"
    /\ UNCHANGED <<denc, dec, scaled, mtype>>
    /\ UNCHANGED ksvars

\* plaintext.decode(encoding, params) on the plaintext encode returned
Decode ==
    /\ pc = "encoded"
    /\ \E k \in EncodingTypes :
        /\ denc' = [enc EXCEPT !.encoding_type = k]
        /\ IF decode_asserts(Unwrap(pt))
           THEN dec' = Some(decode_values(Unwrap(pt), denc', Params)) /\ pc' = "decoded"
           ELSE dec' = None /\ pc' = "decode_panic"
    /\ UNCHANGED <<msg, enc, pt, scaled, mtype>>
    /\ UNCHANGED ksvars

\* Plaintext::scale_m(m, params, encoding, representation)
ScaleM ==
    /\ pc = "init"
    /\ \E m \in ScaleBuffers, l \in Levels(Params), r \in Representations :
        /\ msg' = m
        /\ enc' = Encoding(PolyEnc, CacheAddSub(r), l)
        /\ scaled' = Some(scale_m(m, Params, enc', r))
        /\ pc' = "scaled"
    /\ UNCHANGED <<pt, denc, dec, mtype>>
    /\ UNCHANGED ksvars

\* plaintext.mul_poly_type() on the plaintext encode returned
MulPolyType ==
    /\ pc = "encoded"
    /\ mtype' = mul_poly_type(Unwrap(pt))
    /\ pc' = IF IsSome(mtype') THEN "mul_poly_type" ELSE "mul_poly_type_panic"
    /\ UNCHANGED <<msg, enc, pt, denc, dec, scaled>>
    /\ UNCHANGED ksvars

PtNext == Encode \/ Decode \/ ScaleM \/ MulPolyType

Spec == PtInit /\ [][PtNext]_vars

\* ------------------------------------------------------------------------
\* The key-switching keys as a state machine
\* ------------------------------------------------------------------------

\* the ring degree of the key-switching contexts
KsParams == [degree |-> 2]

\* the pairs (ciphertext context, context of the key polynomial)
KsContexts ==
    {[ct |-> c, ksk |-> c] :
        c \in {<<29, 37, 41>>, <<5, 13, 17, 29, 37>>, <<5, 13, 17, 29>>, <<61, 53>>, <<29>>}}
    \cup {[ct |-> <<29, 37, 41>>, ksk |-> <<13, 17>>]}

\* bounds of the inputs: RNG seeds, error streams, key polynomials, inputs
MaxSeed == 1
MaxGauss == 1
MaxPoly == 1
MaxInput == 2

RngStates == [seed : 0..MaxSeed, g : 0..MaxGauss]

\* secret keys: ternary vectors
SecretKeys == {<<0, 1>>, <<-1, -1>>}

KsInputs ==
    {[ciphertext_ctx |-> c.ct,
      poly |-> PolyRandom(c.ksk, KsParams.degree, 100 + a, 0),
      sk |-> s,
      rng |-> r] :
        c \in KsContexts, a \in 0..MaxPoly, s \in SecretKeys, r \in RngStates}

\* an input of switch over the given chain: index 0 has every residue at its
\* maximum q_i - 1
XPoly(moduli, idx) ==
    PolyNew([i \in 1..Len(moduli) |-> [j \in 1..KsParams.degree |->
                IF idx = 0 THEN moduli[i] - 1
                ELSE ChaChaWord(50 + idx, (i - 1) * KsParams.degree + j) % moduli[i]]],
            moduli, Coefficient)

\* the inputs given to switch: Coefficient polynomials of the ciphertext
\* context, one tagged Evaluation, one of another context
XInputs(ct) ==
    {XPoly(ct, idx) : idx \in 0..MaxInput}
    \cup {[XPoly(ct, 1) EXCEPT !.rep = Evaluation]}
    \cup {XPoly(IF ct = <<13, 17>> THEN <<29, 37>> ELSE <<13, 17>>, 1)}

KsInit ==
    /\ pc = "ks_init"
    /\ build \in BOOLEAN
    /\ kin \in {Some(i) : i \in KsInputs}
    /\ key = None
    /\ xin = None
    /\ out = None
    /\ kernel = Raw
    /\ msg = <<>>
    /\ enc = Encoding(Simd, CacheNone, 0)
    /\ pt = None
    /\ denc = Encoding(Simd, CacheNone, 0)
    /\ dec = None
    /\ scaled = None
    /\ mtype = None

\* BVKeySwitchingKey::new(poly, sk, ciphertext_ctx, rng)
BVNew ==
    /\ pc = "ks_init"
    /\ LET i == Unwrap(kin) IN
       IF build /\ ~(Len(i.ciphertext_ctx) > 1)
       THEN key' = None /\ pc' = "bv_new_panic"
       ELSE key' = Some(BV_new(i.poly, i.sk, i.ciphertext_ctx, i.rng)) /\ pc' = "bv_key"
    /\ UNCHANGED <<build, kin, xin, out, kernel>>
    /\ UNCHANGED ptvars

\* HybridKeySwitchingKey::new(poly, sk, ciphertext_ctx, rng)
HybridNew ==
    /\ pc = "ks_init"
    /\ LET i == Unwrap(kin) IN
       IF build /\ i.ciphertext_ctx # i.poly.ctx
       THEN key' = None /\ pc' = "hy_new_assert"
       ELSE /\ key' = Hybrid_new(i.poly, i.sk, i.ciphertext_ctx, i.rng)
            /\ pc' = IF IsSome(key') THEN "hy_key" ELSE "hy_new_panic"
    /\ UNCHANGED <<build, kin, xin, out, kernel>>
    /\ UNCHANGED ptvars

\* key.switch(poly) on a BV key
BVSwitch ==
    /\ pc = "bv_key"
    /\ \E x \in XInputs(Unwrap(key).ciphertext_ctx) :
        /\ xin' = Some(x)
        /\ IF build /\ (x.ctx # Unwrap(key).ciphertext_ctx \/ x.rep # Coefficient)
           THEN out' = None /\ pc' = "bv_switch_panic"
           ELSE out' = Some(BV_switch(Unwrap(key), x)) /\ pc' = "bv_switched"
    /\ UNCHANGED <<build, kin, key, kernel>>
    /\ UNCHANGED ptvars

\* key.switch(poly) on a Hybrid key
HybridSwitch ==
    /\ pc = "hy_key"
    /\ \E x \in XInputs(Unwrap(key).ciphertext_ctx), k \in Kernels :
        /\ xin' = Some(x)
        /\ kernel' = k
        /\ IF \/ build /\ (x.ctx # Unwrap(key).ciphertext_ctx \/ x.rep # Coefficient)
              \/ Hybrid_switch_panics(Unwrap(key), x)
           THEN out' = None /\ pc' = "hy_switch_panic"
           ELSE out' = Some(Hybrid_switch(Unwrap(key), x, k)) /\ pc' = "hy_switched"
    /\ UNCHANGED <<build, kin, key>>
    /\ UNCHANGED ptvars

KsNext == BVNew \/ HybridNew \/ BVSwitch \/ HybridSwitch

SpecKS == KsInit /\ [][KsNext]_vars

\* ------------------------------------------------------------------------
\* Properties of the plaintext encoder (checked under Spec)
\* ------------------------------------------------------------------------

\* round(a / b) for a >= 0, b > 0
RoundDiv(a, b) == (2 * a + b) \div (2 * b)

\* a decode call was made with the descriptor encode was given, on a message
\* of at most N values below t
SameDescriptorDecode ==
    /\ pc \in {"decoded", "decode_panic"}
    /\ denc = enc
    /\ \A i \in 1..Len(msg) : msg[i] < Params.plaintext_modulus

\* C1: decode with the same encoding descriptor on the plaintext encode
\* returned gives back the message m exactly (its first |m| values), for both
\* encoding types and every level.
C1_RoundTrip ==
    SameDescriptorDecode =>
        /\ pc = "decoded"
        /\ IsSome(dec)
        /\ \A i \in 1..Len(msg) : Unwrap(dec)[i] = msg[i]

\* C1: a decode call on a full-length Simd plaintext has happened.
C1_Witness ==
    /\ SameDescriptorDecode
    /\ Len(msg) = Params.degree
    /\ enc.encoding_type = Simd

\* C2: scale_m returns a polynomial over the level-l Q context, in the
\* representation asked for, whose coefficient-form residue in row i and
\* column j is round(Q_l * m_j / t) mod q_i.
C2_ScaleMRounds ==
    pc = "scaled" =>
        LET p == Unwrap(scaled)
            ctx == poly_ctx(Params, "Q", enc.level)
            cf == ChangeRepresentation(p, Coefficient)
        IN /\ p.ctx = ctx
           /\ p.rep = enc.poly_cache.rep
           /\ Len(cf.coeffs) = Len(ctx)
           /\ \A i \in 1..Len(ctx) : \A j \in 1..Params.degree :
                cf.coeffs[i][j] =
                    RoundDiv(ProdSeq(ctx) * msg[j], Params.plaintext_modulus) % ctx[i]

\* C2: scale_m of m = [1, 0, 0, 0] at level 0 has happened: coefficient 0 is
\* round(Q_0 / t) in every row and the others are 0.
C2_Witness ==
    /\ pc = "scaled"
    /\ msg = <<1, 0, 0, 0>>
    /\ enc.level = 0
    /\ LET cf == ChangeRepresentation(Unwrap(scaled), Coefficient)
           ctx == poly_ctx(Params, "Q", 0)
       IN \A i \in 1..Len(ctx) :
            /\ cf.coeffs[i][1] = RoundDiv(ProdSeq(ctx), Params.plaintext_modulus) % ctx[i]
            /\ cf.coeffs[i][1] # 0
            /\ \A j \in 2..Params.degree : cf.coeffs[i][j] = 0

\* ------------------------------------------------------------------------
\* Properties of the key-switching keys (checked under SpecKS)
\* ------------------------------------------------------------------------

\* switch returned, for an input in Coefficient form in the ciphertext
\* context, under a key whose ciphertext context is its ksk context
SwitchedOk(at) ==
    /\ pc = at
    /\ Unwrap(key).ciphertext_ctx = Unwrap(key).ksk_ctx
    /\ Unwrap(xin).ctx = Unwrap(key).ciphertext_ctx
    /\ Unwrap(xin).rep = Coefficient

\* |c0 + c1*s - a*x| per coefficient, for the switch that has returned
OutNoise == SwitchNoise(Unwrap(out), Unwrap(kin).poly, Unwrap(kin).sk, Unwrap(xin))

\* Sum_i q_i * B over the ciphertext chain
BVBound == SumSeq(Unwrap(key).ciphertext_ctx) * GaussBound

\* C3 as stated: every coefficient of c0 + c1*s - a*x, centred, is at most
\* Sum_i q_i * B in absolute value after a BV switch.
C3_NoiseWithinSum ==
    SwitchedOk("bv_switched") =>
        \A j \in 1..KsParams.degree : OutNoise[j] <= BVBound

\* C3 amended: every coefficient of c0 + c1*s - a*x, centred, is at most
\* N * Sum_i q_i * B in absolute value after a BV switch, N the ring degree.
C3_NoiseWithinDegreeSum ==
    SwitchedOk("bv_switched") =>
        \A j \in 1..KsParams.degree : OutNoise[j] <= KsParams.degree * BVBound

\* C3: a BV switch has returned a pair whose noise exceeds Sum_i q_i * B in
\* some coefficient.
C3_Witness ==
    /\ SwitchedOk("bv_switched")
    /\ \E j \in 1..KsParams.degree : OutNoise[j] > BVBound

\* C4: a Hybrid switch returns two polynomials of the Q context whose
\* decryption is a*x up to noise strictly below the BV bound Sum_i q_i * B.
C4_HybridNoiseBelowBV ==
    SwitchedOk("hy_switched") =>
        /\ \A k \in 1..2 : Unwrap(out)[k].ctx = Unwrap(key).ksk_ctx
        /\ \A j \in 1..KsParams.degree : OutNoise[j] < BVBound

\* C4: a Hybrid switch over a chain of four moduli has returned under the
\* kernel that transforms internally.
C4_Witness ==
    /\ SwitchedOk("hy_switched")
    /\ kernel = Transforming
    /\ Len(Unwrap(key).ciphertext_ctx) = 4

\* the secret key in Evaluation form over the given chain
SkEval(ctx) ==
    ChangeRepresentation(TryConvertFromI64(Unwrap(kin).sk, ctx, Coefficient), Evaluation)

\* the Gaussian error of key element i (1-based) over the given chain, in
\* Evaluation form
ErrEval(ctx, i) ==
    ChangeRepresentation(
        PolyRandomGaussian(ctx, KsParams.degree, Unwrap(kin).rng, i - 1), Evaluation)

\* C5: a BV key for a ciphertext context of L moduli holds exactly L pairs
\* (c0_i, c1_i) in the ksk context in Evaluation form, and
\* c0_i + c1_i*s = g_i*a + e_i with g_i the i-th generator of the ciphertext
\* context.
C5_BVKeyRelation ==
    pc = "bv_key" =>
        LET k == Unwrap(key)
            a == Unwrap(kin).poly
            ct == Unwrap(kin).ciphertext_ctx
            g == CtxG(ct)
        IN /\ Len(k.c0s) = Len(ct)
           /\ Len(k.c1s) = Len(ct)
           /\ k.ksk_ctx = a.ctx
           /\ \A i \in 1..Len(ct) :
                /\ k.c0s[i].ctx = a.ctx /\ k.c0s[i].rep = Evaluation
                /\ k.c1s[i].ctx = a.ctx /\ k.c1s[i].rep = Evaluation
                /\ PolyAdd(k.c0s[i], PolyMul(k.c1s[i], SkEval(a.ctx)))
                   = PolyAdd(PolyMul(TryConvertFromBigConst(g[i], KsParams.degree, a.ctx,
                                                            Evaluation), a),
                             ErrEval(a.ctx, i))

\* C5: a BV key over a chain of five moduli has been built with a non-zero
\* error in its first element.
C5_Witness ==
    /\ pc = "bv_key"
    /\ Len(Unwrap(key).c0s) = 5
    /\ \E r \in 1..5 : \E j \in 1..KsParams.degree :
          ErrEval(Unwrap(key).ksk_ctx, 1).coeffs[r][j] # 0

\* C6: for every digit group j of a Hybrid key and every row of QP,
\* c0_j + c1_j*s = g_j*a + e_j: with g_j*a on the Q rows, and with nothing but
\* e_j on the P rows, where g_j is 0.
C6_HybridKeyRelation ==
    pc = "hy_key" =>
        LET k == Unwrap(key)
            a == Unwrap(kin).poly
            g == Hybrid_g(k.ciphertext_ctx, k.p_ctx)
            lq == Len(k.ksk_ctx)
            s == SkEval(k.qp_ctx)
        IN /\ Len(k.c0s) = CeilDiv(Len(k.ciphertext_ctx), dnum)
           /\ Len(k.c1s) = Len(k.c0s)
           /\ \A j \in 1..Len(k.c0s) :
                /\ k.c0s[j].ctx = k.qp_ctx /\ k.c1s[j].ctx = k.qp_ctx
                /\ \A r \in 1..Len(k.qp_ctx) : \A x \in 1..KsParams.degree :
                     LET m == k.qp_ctx[r]
                         lhs == ModAdd(m, k.c0s[j].coeffs[r][x],
                                       ModMul(m, k.c1s[j].coeffs[r][x], s.coeffs[r][x]))
                         e == ErrEval(k.qp_ctx, j).coeffs[r][x]
                     IN IF r <= lq
                        THEN lhs = ModAdd(m, ModMul(m, BigMod(g[j], m), a.coeffs[r][x]), e)
                        ELSE BigMod(g[j], m) = 0 /\ lhs = e

\* C6: a Hybrid key with two digit groups has been built whose second element
\* has a non-zero P row.
C6_Witness ==
    /\ pc = "hy_key"
    /\ Len(Unwrap(key).c0s) = 2
    /\ \E x \in 1..KsParams.degree :
          Unwrap(key).c0s[2].coeffs[Len(Unwrap(key).qp_ctx)][x] # 0

\* C7: for both kinds of key, generate_c1 run again from the seed stored in
\* the key gives exactly the c1s the key stores, and the stored c0s are the
\* ones built from them.
C7_C1FromStoredSeed ==
    /\ pc = "bv_key" =>
         LET k == Unwrap(key)
             again == BV_generate_c1(Len(k.c1s), k.ksk_ctx, KsParams.degree, k.seed)
         IN /\ again = k.c1s
            /\ k.c0s = BV_generate_c0(k.ciphertext_ctx, k.ksk_ctx, Unwrap(kin).poly, again,
                                       Unwrap(kin).sk, Unwrap(kin).rng)
    /\ pc = "hy_key" =>
         LET k == Unwrap(key)
             again == Hybrid_generate_c1(Len(k.c1s), k.qp_ctx, KsParams.degree, k.seed)
         IN /\ again = k.c1s
            /\ k.c0s = Hybrid_generate_c0(again, Hybrid_g(k.ciphertext_ctx, k.p_ctx),
                                           Unwrap(kin).poly, Unwrap(kin).sk, Unwrap(kin).rng)

\* C7: a key has been built from an RNG whose seed is not the default one.
C7_Witness ==
    /\ pc \in {"bv_key", "hy_key"}
    /\ Unwrap(key).seed # 0
    /\ Len(Unwrap(key).c1s) >= 2

\* C9: new sets alpha = ceil(L / dnum), and c0s, c1s and every per-digit table
\* have exactly alpha entries.
C9_AlphaIsCeil ==
    pc = "hy_key" =>
        LET k == Unwrap(key) IN
        /\ k.alpha = CeilDiv(Len(k.ciphertext_ctx), dnum)
        /\ Len(k.c0s) = k.alpha
        /\ Len(k.c1s) = k.alpha
        /\ Len(k.q_hat_inv_modq_parts) = k.alpha
        /\ Len(k.q_hat_modp_parts) = k.alpha
        /\ Len(k.p_moduli_parts) = k.alpha
        /\ Len(k.q_mod_ops_parts) = k.alpha

\* C9: a Hybrid key over a chain of four moduli has been built.
C9_Witness ==
    /\ pc = "hy_key"
    /\ Len(Unwrap(key).ciphertext_ctx) = 4
    /\ Len(Unwrap(key).c0s) = 2

\* the primes the search of new can return: aux_bits wide, 1 modulo 2N, and
\* not in the Q chain
AdmissiblePrimes(ksk_ctx) ==
    {c \in 2..(PowMod(2, aux_bits, 1000000) - 1) :
        /\ Bits(c) = aux_bits
        /\ c % (2 * KsParams.degree) = 1
        /\ IsPrime(c)
        /\ ~Contains(ksk_ctx, c)}

\* C10: the chain P of a Hybrid key has exactly
\* ceil(max_j bits(Q_j) / aux_bits) primes, pairwise distinct and none of them
\* a modulus of the Q chain; new aborts exactly when the search cannot find
\* that many.
C10_PChain ==
    LET need == CeilDiv(MaxBits(DigitProducts(Unwrap(kin).ciphertext_ctx)), aux_bits)
        q == Unwrap(kin).poly.ctx
    IN /\ pc = "hy_key" =>
            LET p == Unwrap(key).p_ctx IN
            /\ Len(p) = need
            /\ \A i \in 1..Len(p) : p[i] \in AdmissiblePrimes(q)
            /\ \A i, j \in 1..Len(p) : i # j => p[i] # p[j]
            /\ Unwrap(key).qp_ctx = q \o p
            /\ Cardinality(AdmissiblePrimes(q)) >= need
       /\ pc = "hy_new_panic" =>
            /\ key = None
            /\ Cardinality(AdmissiblePrimes(q)) < need

\* C10: a Hybrid key has been built whose search passed over the two primes
\* of the Q chain.
C10_Witness ==
    /\ pc = "hy_key"
    /\ Unwrap(key).ksk_ctx = <<61, 53>>
    /\ Unwrap(key).p_ctx = <<41, 37>>

\* C11: the product P of the generated primes is strictly greater than every
\* digit product Q_j of the ciphertext chain.
C11_PExceedsDigits ==
    pc = "hy_key" =>
        LET qj == DigitProducts(Unwrap(key).ciphertext_ctx) IN
        \A j \in 1..Len(qj) : ProdSeq(Unwrap(key).p_ctx) > qj[j]

\* C11: a Hybrid key has been built whose P has as many primes as the size
\* computation asks for and is below a digit product.
C11_Witness ==
    /\ pc = "hy_key"
    /\ Len(Unwrap(key).p_ctx) = SizeP(Unwrap(key).ciphertext_ctx)
    /\ \E j \in 1..Len(DigitProducts(Unwrap(key).ciphertext_ctx)) :
          ProdSeq(Unwrap(key).p_ctx) < DigitProducts(Unwrap(key).ciphertext_ctx)[j]

\* the input given to switch is not in Coefficient form or not of the key's
\* ciphertext context
BadSwitchInput ==
    /\ pc \in {"bv_switched", "bv_switch_panic", "hy_switched", "hy_switch_panic"}
    /\ \/ Unwrap(xin).rep # Coefficient
       \/ Unwrap(xin).ctx # Unwrap(key).ciphertext_ctx

\* C12: switch of either key aborts and returns no pair whenever its input is
\* not in Coefficient form or not of the key's ciphertext context.
C12_SwitchRejectsBadInput ==
    BadSwitchInput => (pc \in {"bv_switch_panic", "hy_switch_panic"} /\ out = None)

\* C12: a switch has returned a pair for an input tagged Evaluation.
C12_Witness ==
    /\ BadSwitchInput
    /\ Unwrap(xin).rep = Evaluation
    /\ pc \in {"bv_switched", "hy_switched"}
    /\ IsSome(out)

\* ------------------------------------------------------------------------
\* Further properties of the plaintext encoder (checked under Spec)
\* ------------------------------------------------------------------------

\* the message extended with zeros to N values
PadZero(m) == [j \in 1..Params.degree |-> IF j <= Len(m) THEN m[j] ELSE 0]

\* encode has been called
EncodeCalled == pc \in {"encoded", "encode_panic", "decoded", "decode_panic"}

\* C13: encode aborts and produces no plaintext when the message has more than
\* N values; for a message of at most N values it returns the plaintext of the
\* message extended with zeros.
C13_EncodeLength ==
    EncodeCalled =>
        IF Len(msg) > Params.degree
        THEN pc = "encode_panic" /\ pt = None
        ELSE /\ pc # "encode_panic"
             /\ IsSome(pt)
             /\ Len(Unwrap(pt).m) = Params.degree
             /\ Unwrap(pt) = encode(PadZero(msg), Params, enc)

\* C13: a message of two non-zero values has been encoded.
C13_Witness ==
    /\ pc = "encoded"
    /\ Len(msg) = 2
    /\ msg[1] # 0 /\ msg[2] # 0
    /\ IsSome(pt)

\* the mul_poly the descriptor asks for: the buffer lifted into the context of
\* the poly kind at the level, held in Evaluation form
IsMulPolyOf(p, buf, kind, level) ==
    LET ctx == poly_ctx(Params, kind, level)
        cf == ChangeRepresentation(p, Coefficient)
    IN /\ p.ctx = ctx
       /\ p.rep = Evaluation
       /\ Len(p.coeffs) = Len(ctx)
       /\ \A i \in 1..Len(ctx) : \A j \in 1..Params.degree :
            cf.coeffs[i][j] = buf[j] % ctx[i]

\* the add_sub_poly the descriptor asks for: scale_m of the buffer in the
\* level's Q context in the given representation
IsAddSubPolyOf(p, buf, e, rep) ==
    /\ p.ctx = poly_ctx(Params, "Q", e.level)
    /\ p.rep = rep
    /\ p = scale_m(buf, Params, e, rep)

\* C14: encode fills the cached polynomials as the descriptor's cache selects:
\* None neither, Mul(kind) only mul_poly, AddSub(repr) only add_sub_poly,
\* All(kind, repr) both.
C14_CachePopulation ==
    (EncodeCalled /\ IsSome(pt)) =>
        LET p == Unwrap(pt)
            cache == enc.poly_cache
        IN /\ IsSome(p.mul_poly) <=> cache.tag \in {"Mul", "All"}
           /\ IsSome(p.add_sub_poly) <=> cache.tag \in {"AddSub", "All"}
           /\ IsSome(p.mul_poly) =>
                IsMulPolyOf(Unwrap(p.mul_poly), p.m, cache.poly_type, enc.level)
           /\ IsSome(p.add_sub_poly) =>
                IsAddSubPolyOf(Unwrap(p.add_sub_poly), p.m, enc, cache.rep)

\* C14: a message has been encoded under an All cache at level 1 and both
\* polynomials are held.
C14_Witness ==
    /\ pc = "encoded"
    /\ enc.poly_cache.tag = "All"
    /\ enc.level = 1
    /\ IsSome(Unwrap(pt).mul_poly)
    /\ IsSome(Unwrap(pt).add_sub_poly)
    /\ \E j \in 1..Params.degree : Unwrap(pt).m[j] # 0

\* ------------------------------------------------------------------------
\* Further properties of the key-switching keys (checked under SpecKS)
\* ------------------------------------------------------------------------

\* switch returned for an input in Coefficient form in the ciphertext context
ValidSwitch(at) ==
    /\ pc = at
    /\ Unwrap(xin).ctx = Unwrap(key).ciphertext_ctx
    /\ Unwrap(xin).rep = Coefficient

\* residue row i of the input alone, reduced under the modulus m and
\* transformed to Evaluation form
LiftedRow(i, m) ==
    NttForward(m, [j \in 1..KsParams.degree |-> Unwrap(xin).coeffs[i][j] % m])

\* Sum_{i <= L} r_i * c_i at row r and column j, for the key elements cs
SumOfRows(cs, r, j) ==
    LET m == Unwrap(key).ksk_ctx[r]
        L == Len(Unwrap(key).ciphertext_ctx)
    IN SumSeq([i \in 1..L |-> (LiftedRow(i, m)[j] * cs[i].coeffs[r][j]) % m]) % m

\* C15: a BV switch returns c0_out = Sum_i r_i*c0_i and c1_out = Sum_i r_i*c1_i
\* over all L residue rows r_i of the input, each lifted alone into the ksk
\* context and taken to Evaluation form; both are in Evaluation form in the ksk
\* context, and the key is still the one new built.
C15_BVSwitchSums ==
    ValidSwitch("bv_switched") =>
        LET k == Unwrap(key)
            i == Unwrap(kin)
            o == Unwrap(out)
        IN /\ Len(o) = 2
           /\ \A c \in 1..2 : o[c].ctx = k.ksk_ctx /\ o[c].rep = Evaluation
           /\ \A r \in 1..Len(k.ksk_ctx) : \A j \in 1..KsParams.degree :
                /\ o[1].coeffs[r][j] = SumOfRows(k.c0s, r, j)
                /\ o[2].coeffs[r][j] = SumOfRows(k.c1s, r, j)
           /\ k = BV_new(i.poly, i.sk, i.ciphertext_ctx, i.rng)

\* C15: a BV switch over a chain of five moduli has returned for an input
\* whose first row is not zero.
C15_Witness ==
    /\ ValidSwitch("bv_switched")
    /\ Len(Unwrap(key).ciphertext_ctx) = 5
    /\ \E j \in 1..KsParams.degree : Unwrap(xin).coeffs[1][j] # 0

\* a Hybrid switch was called with an input in Coefficient form in the
\* ciphertext context, under a key whose ciphertext context is its ksk context
HybridSwitchCalled ==
    /\ pc \in {"hy_switched", "hy_switch_panic"}
    /\ Unwrap(key).ciphertext_ctx = Unwrap(key).ksk_ctx
    /\ Unwrap(xin).ctx = Unwrap(key).ciphertext_ctx
    /\ Unwrap(xin).rep = Coefficient

\* the rows (0-based) switch takes for digit group j
GroupRows(j) ==
    LET dr == DigitRows(Unwrap(key), Unwrap(xin), j) IN
    {r \in 0..(Len(Unwrap(xin).coeffs) - 1) : dr[1] <= r /\ r < dr[2]}

\* C16: switch partitions the L residue rows of its input into digit groups,
\* group j spanning rows j*dnum .. min((j+1)*dnum, L)-1: every row is in exactly
\* one group, no group has more than dnum rows, and the rows of group j are
\* the moduli the key's j-th tables were built for.
C16_DigitPartition ==
    HybridSwitchCalled =>
        LET k == Unwrap(key)
            L == Len(Unwrap(xin).coeffs)
            groups == 0..(k.alpha - 1)
        IN /\ \A j \in groups :
                /\ GroupRows(j) = {r \in 0..(L - 1) : j * dnum <= r /\ r < Min((j + 1) * dnum, L)}
                /\ Cardinality(GroupRows(j)) <= dnum
                /\ j + 1 <= Len(k.q_mod_ops_parts)
                /\ j + 1 <= Len(k.q_hat_inv_modq_parts)
                /\ Len(k.q_mod_ops_parts[j + 1]) = Cardinality(GroupRows(j))
                /\ Len(k.q_hat_inv_modq_parts[j + 1]) = Cardinality(GroupRows(j))
                /\ \A r \in GroupRows(j) :
                     k.q_mod_ops_parts[j + 1][r - j * dnum + 1] = k.ciphertext_ctx[r + 1]
           /\ \A r \in 0..(L - 1) : Cardinality({j \in groups : r \in GroupRows(j)}) = 1

\* C16: a Hybrid switch over a chain of four moduli has returned, having taken
\* all four rows as its only digit group.
C16_Witness ==
    /\ HybridSwitchCalled
    /\ pc = "hy_switched"
    /\ Unwrap(key).alpha = 1
    /\ GroupRows(0) = 0..3

\* the rows approx_switch_crt_basis returns for digit group j of the input,
\* one per modulus of p_moduli_parts[j]
EmbedSwitched(j) ==
    LET k == Unwrap(key)
        dr == DigitRows(k, Unwrap(xin), j)
    IN approx_switch_crt_basis(Slice(Unwrap(xin).coeffs, dr[1], dr[2]), k.q_mod_ops_parts[j + 1], KsParams.degree, k.q_hat_inv_modq_parts[j + 1], k.q_hat_modp_parts[j + 1], k.p_moduli_parts[j + 1])

\* C17: for every digit group j the QP polynomial u_j holds the digit's own
\* rows unchanged in their native positions, and in every other row the row
\* approx_switch_crt_basis produced for that row's modulus; every row k holds
\* residues below qp_moduli[k].
C17_EmbedRows ==
    (HybridSwitchCalled /\ pc = "hy_switched") =>
        LET k == Unwrap(key)
            x == Unwrap(xin)
        IN \A j \in 0..(k.alpha - 1) :
             LET u == Hybrid_embed(k, x, j)
                 sw == EmbedSwitched(j)
             IN /\ u.ctx = k.qp_ctx
                /\ Len(u.coeffs) = Len(k.qp_ctx)
                /\ \A r \in 0..(Len(k.qp_ctx) - 1) :
                     /\ \A c \in 1..KsParams.degree :
                          u.coeffs[r + 1][c] \in 0..(k.qp_ctx[r + 1] - 1)
                     /\ IF r \in GroupRows(j)
                        THEN u.coeffs[r + 1] = x.coeffs[r + 1]
                        ELSE \E m \in 1..Len(sw) :
                               /\ k.p_moduli_parts[j + 1][m] = k.qp_ctx[r + 1]
                               /\ u.coeffs[r + 1] = sw[m]

\* C17: a Hybrid switch over a chain of four moduli has returned; the row
\* switched for the fourth Q modulus sits in the row of the first prime of P.
C17_Witness ==
    /\ HybridSwitchCalled
    /\ pc = "hy_switched"
    /\ Len(Unwrap(key).ciphertext_ctx) = 4
    /\ Unwrap(key).p_moduli_parts[1][1] = Unwrap(key).ciphertext_ctx[4]
    /\ Hybrid_embed(Unwrap(key), Unwrap(xin), 0).coeffs[5] = EmbedSwitched(0)[1]

\* the mod-down of an accumulator taken on its Coefficient-form residues, put
\* back into Evaluation form over the ksk context
ModDownOfCoefficients(acc) ==
    LET k == Unwrap(key)
        cf == ChangeRepresentation(acc, Coefficient)
    IN ChangeRepresentation(
           PolyNew(approx_mod_down(cf.coeffs, k.qp_ctx, k.p_ctx, k.p_hat_inv_modp, k.p_hat_modq, k.p_inv_modq), k.ksk_ctx, Coefficient),
           Evaluation)

\* C18: the accumulators c0_out and c1_out are in Coefficient form when their
\* residues are handed to approx_mod_down, and the two polynomials returned
\* are in Evaluation form in the ksk context, holding Evaluation-form residues
\* of the reduced accumulators.
C18_ModDownRepresentation ==
    (HybridSwitchCalled /\ pc = "hy_switched") =>
        LET k == Unwrap(key)
            acc == Hybrid_accumulate(k, Unwrap(xin))
            o == Unwrap(out)
        IN \A c \in 1..2 :
             /\ acc[c].rep = Coefficient
             /\ o[c].rep = Evaluation
             /\ o[c].ctx = k.ksk_ctx
             /\ o[c] = ModDownOfCoefficients(acc[c])

\* C18: a Hybrid switch over a chain of five moduli has returned, its
\* accumulators having been in Evaluation form over QP.
C18_Witness ==
    /\ HybridSwitchCalled
    /\ pc = "hy_switched"
    /\ Len(Unwrap(key).ciphertext_ctx) = 5
    /\ \A c \in 1..2 :
         /\ Hybrid_accumulate(Unwrap(key), Unwrap(xin))[c].rep = Evaluation
         /\ Hybrid_accumulate(Unwrap(key), Unwrap(xin))[c].ctx = Unwrap(key).qp_ctx

\* the values x for which the recombination Sum_j g_j * [x]_{Q_j} is compared
\* with P * x
RecombinationValues == {1, 7, 1234}

\* C19: every generator g_j of a Hybrid key is 0 modulo every prime of P,
\* P mod q_i modulo every q_i of digit group j, and 0 modulo every other q_i
\* of the Q chain; hence Sum_j g_j * [x]_{Q_j} = P * x modulo every q_i.
C19_GeneratorResidues ==
    pc = "hy_key" =>
        LET k == Unwrap(key)
            g == Hybrid_g(k.ciphertext_ctx, k.p_ctx)
            digits == Chunks(k.ciphertext_ctx, dnum)
            qj == DigitProducts(k.ciphertext_ctx)
            p == ProdSeq(k.p_ctx)
        IN /\ Len(g) = Len(digits)
           /\ \A j \in 1..Len(g) :
                /\ \A i \in 1..Len(k.p_ctx) : BigMod(g[j], k.p_ctx[i]) = 0
                /\ \A d \in 1..Len(digits) : \A i \in 1..Len(digits[d]) :
                     BigMod(g[j], digits[d][i]) =
                         IF d = j THEN p % digits[d][i] ELSE 0
           /\ \A x \in RecombinationValues : \A i \in 1..Len(k.ciphertext_ctx) :
                LET m == k.ciphertext_ctx[i] IN
                SumSeq([j \in 1..Len(g) |-> BigMod(g[j], m) * ((x % qj[j]) % m)]) % m
                    = ((p % m) * (x % m)) % m

\* C19: a Hybrid key with two digit groups has been built, and its second
\* generator is not 0 modulo the moduli of the second group.
C19_Witness ==
    /\ pc = "hy_key"
    /\ Len(Unwrap(key).ciphertext_ctx) = 5
    /\ LET g == Hybrid_g(Unwrap(key).ciphertext_ctx, Unwrap(key).p_ctx) IN
       /\ Len(g) = 2
       /\ BigMod(g[2], Unwrap(key).ciphertext_ctx[4]) # 0
       /\ BigMod(g[2], Unwrap(key).ciphertext_ctx[1]) = 0

\* HybridKeySwitchingKey::new was called
HybridNewCalled ==
    pc \in {"hy_new_assert", "hy_new_panic", "hy_key", "hy_switched", "hy_switch_panic"}

\* C20: HybridKeySwitchingKey::new aborts when ciphertext_ctx differs from the
\* context of the key polynomial, so no Hybrid key has a ciphertext context
\* that differs from its ksk context.
C20_HybridNewRejectsMismatch ==
    HybridNewCalled =>
        /\ Unwrap(kin).ciphertext_ctx # Unwrap(kin).poly.ctx =>
              (pc = "hy_new_assert" /\ key = None)
        /\ IsSome(key) => Unwrap(key).ciphertext_ctx = Unwrap(key).ksk_ctx

\* C20: a Hybrid key has been built whose ciphertext context differs from its
\* ksk context.
C20_Witness ==
    /\ pc = "hy_key"
    /\ IsSome(key)
    /\ Unwrap(key).ciphertext_ctx # Unwrap(key).ksk_ctx
    /\ Unwrap(key).ksk_ctx = Unwrap(kin).poly.ctx

\* ------------------------------------------------------------------------
\* mul_poly_type on the plaintexts encode returns
\* ------------------------------------------------------------------------

\* mul_poly_type has been called on the plaintext encode returned
MulPolyTypeCalled == pc \in {"mul_poly_type", "mul_poly_type_panic"}

\* C21: on every plaintext encode returned that carries a mul_poly
\* (supports_mul_poly is true), mul_poly_type does not abort and returns the
\* poly kind whose context mul_poly was built in; it aborts only on a
\* plaintext that carries no mul_poly.
C21_MulPolyTypeTotal ==
    MulPolyTypeCalled =>
        LET p == Unwrap(pt) IN
        /\ supports_mul_poly(p) =>
             /\ pc = "mul_poly_type"
             /\ IsSome(mtype)
             /\ Unwrap(p.mul_poly).ctx = poly_ctx(Params, Unwrap(mtype), enc.level)
        /\ pc = "mul_poly_type_panic" => ~supports_mul_poly(p)

\* C21: mul_poly_type was called on a plaintext encoded under the All cache:
\* the plaintext carries a mul_poly and the call aborted
C21_Witness ==
    /\ pc = "mul_poly_type_panic"
    /\ enc.poly_cache.tag = "All"
    /\ supports_mul_poly(Unwrap(pt))
    /\ mtype = None

====
